---- MODULE Spec2Model ----
(***************************************************************************)
(* Model of recommendation_backend.py: the yoga asana recommendation       *)
(* engine (module start-up, recommend_asanas, get_recommendations).        *)
(*                                                                         *)
(* Texts are sequences of one-character strings.  Cosine similarities are  *)
(* fixed-point integers in units of 1/CosUnit, so 0.25 is 2500 and 1.0 is  *)
(* 10000.  A score is kept as the integer numerator of a fraction whose    *)
(* denominator is total_weight * CosUnit; a rounded score is an integer    *)
(* number of thousandths.  The sentence-transformer model and util.cos_sim *)
(* are library code: they are modelled by a fixed deterministic embedder   *)
(* (VecOf) and a fixed similarity table (CosSim).                          *)
(***************************************************************************)
EXTENDS Integers, Sequences, FiniteSets, TLC

VARIABLES disk, phase, df, pc, user_profile, user_emb, i, recommendations,
          trace, embedCalls, response, memo

vars == <<disk, phase, df, pc, user_profile, user_emb, i, recommendations,
          trace, embedCalls, response, memo>>

\* ------------------------------------------------------------------ bounds
\* Number of rows of the long catalogs (more than the 10 returned entries).
MaxCatalog == 12

\* ------------------------------------------------------------- fixed point
CosUnit == 10 ^ 4

\* ------------------------------------------------------------------- texts
None == "None"

LowerChar(c) ==
  CASE c = "K" -> "k"
    [] c = "N" -> "n"
    [] OTHER -> c

\* str.lower()
Lower(t) == [k \in 1..Len(t) |-> LowerChar(t[k])]

\* str(x): a text is itself, None becomes the text "None"
Str(x) == IF x.t = "none" THEN <<"N", "o", "n", "e">> ELSE x.v

\* sub in text
Contains(text, sub) ==
  \E off \in 0..(Len(text) - Len(sub)) :
     SubSeq(text, off + 1, off + Len(sub)) = sub

\* " ".join(list)
RECURSIVE Join(_)
Join(list) ==
  IF Len(list) = 0 THEN <<>>
  ELSE IF Len(list) = 1 THEN list[1]
  ELSE list[1] \o <<" ">> \o Join(Tail(list))

Text(s) == [t |-> "str", v |-> s]
NoText == [t |-> "none", v |-> <<>>]

relax == <<"r", "x">>
back == <<"b", "k">>
anxiety == <<"a", "x">>
KNEE == <<"K", "N">>
hash == <<"#">>

\* ---------------------------------------------------------------- embedder
\* model.encode(text, normalize_embeddings=True): deterministic; raises on
\* the one text the embedder cannot handle.
EncodeFails(text) == text = hash

VecOf(text) ==
  CASE text = relax -> "qRelax"
    [] text = back -> "qBack"
    [] text = anxiety -> "qAnx"
    [] text = <<"k", "n">> -> "qKnee"
    [] text = <<"a", "x", " ", "K", "N">> -> "qAnxKnee"
    [] text = <<"b", "k", " ", "#">> -> "qBackHash"
    [] text = <<>> -> "qEmpty"
    [] OTHER -> "qOther"

\* util.cos_sim(a, b).item() for a query vector q and a stored vector e
CosSim(q, e) ==
  CASE e = "bCalm" /\ q = "qRelax" -> 8000
    [] e = "bNear" /\ q = "qRelax" -> 8001
    [] e = "bStrong" /\ q = "qRelax" -> 5000
    [] e = "bStrong" /\ q \in {"qBack", "qBackHash"} -> 6000
    [] e = "bStrong" /\ q \in {"qAnx", "qAnxKnee"} -> 1000
    [] e = "bTiny" /\ q = "qRelax" -> 16
    [] e = "bOpp" /\ q = "qRelax" -> -5000
    [] e = "bOpp" /\ q = "qBack" -> 3000
    [] e = "bMax" /\ q \in {"qRelax", "qBack", "qAnx"} -> 10000
    [] e = "bMax" /\ q \in {"qBackHash", "qAnxKnee"} -> 9000
    [] e = "tBack" /\ q \in {"qBack", "qBackHash"} -> 5000
    [] e = "tAnx" /\ q \in {"qAnx", "qAnxKnee"} -> 5000
    [] e = "tMax" /\ q \in {"qBack", "qAnx"} -> 10000
    [] e = "cEdge" /\ q = "qBack" -> 2500
    [] e = "cOver" /\ q = "qBack" -> 2501
    [] e = "cFar" /\ q = "qKnee" -> -1200
    [] OTHER -> 0

\* util.cos_sim raises when the stored value is not a vector
CosFails(e) == e = None

\* ----------------------------------------------------------------- catalog
Columns == {"AName", "Benefits", "Contraindications", "Contraindications_emb",
            "Benefits_emb", "Targeted Physical Problems_emb",
            "Targeted Mental Problems_emb"}

Row(name, contra, ce, be, tp, tm) ==
  [AName |-> name, Benefits |-> Text(<<"g", "d">>), Contraindications |-> contra,
   Contraindications_emb |-> ce, Benefits_emb |-> be,
   TargetedPhysical_emb |-> tp, TargetedMental_emb |-> tm]

harmless == Text(<<"h", "i">>)
kneeText == Text(<<"K", "n", " ", "i">>)

Kinds == {"calm", "near", "strong", "max", "tiny", "null", "opp", "edge",
          "over", "noBen", "noCE", "noText"}

RowOfKind(kind, name) ==
  CASE kind = "calm" -> Row(name, harmless, "cFar", "bCalm", "tNone", "tNone")
    [] kind = "near" -> Row(name, harmless, "cFar", "bNear", "tNone", "tNone")
    [] kind = "strong" -> Row(name, harmless, "cFar", "bStrong", "tBack", "tAnx")
    [] kind = "max" -> Row(name, kneeText, "cFar", "bMax", "tMax", "tMax")
    [] kind = "tiny" -> Row(name, harmless, "cFar", "bTiny", "tNone", "tNone")
    [] kind = "null" -> Row(name, harmless, "cFar", "bNull", "tNone", "tNone")
    [] kind = "opp" -> Row(name, harmless, "cFar", "bOpp", "tNone", "tNone")
    [] kind = "edge" -> Row(name, harmless, "cEdge", "bCalm", "tNone", "tNone")
    [] kind = "over" -> Row(name, harmless, "cOver", "bMax", "tMax", "tMax")
    [] kind = "noBen" -> Row(name, harmless, "cFar", None, "tBack", "tAnx")
    [] kind = "noCE" -> Row(name, harmless, None, "bMax", "tMax", "tMax")
    [] kind = "noText" -> Row(name, NoText, "cFar", "bCalm", "tNone", "tNone")

Patterns == {<<>>} \cup {<<a>> : a \in Kinds} \cup {<<a, b>> : a, b \in Kinds}

\* the catalog of n rows that repeats the pattern; row k is named k
Frame(cols, pattern, n) ==
  [columns |-> cols,
   rows |-> [k \in 1..n |-> RowOfKind(pattern[((k - 1) % Len(pattern)) + 1], k)]]

Catalogs ==
  {Frame(Columns, p, Len(p)) : p \in Patterns}
  \cup {Frame(Columns, p, MaxCatalog) : p \in Patterns \ {<<>>}}
  \cup {Frame(Columns \ {c}, <<"strong", "max">>, 2) :
          c \in {"Contraindications", "Contraindications_emb", "Benefits_emb",
                 "Targeted Physical Problems_emb", "Targeted Mental Problems_emb"}}

\* row[col] raises KeyError when the frame has no such column
KeyError(frame, col) == col \notin frame.columns

NoFrame == [columns |-> {}, rows |-> <<>>]

\* what start-up finds: the model (loadable or not) and the pickle file
Disks ==
  {[model_ok |-> TRUE, pkl_ok |-> TRUE, pkl |-> c] : c \in Catalogs}
  \cup {[model_ok |-> FALSE, pkl_ok |-> TRUE, pkl |-> Frame(Columns, <<"calm">>, 1)],
        [model_ok |-> TRUE, pkl_ok |-> FALSE, pkl |-> NoFrame]}

\* ---------------------------------------------------------------- profiles
Profile(g, p, m) == [goals |-> g, physical_issues |-> p, mental_issues |-> m]

Profiles ==
  {Profile(<<relax>>, <<back>>, <<anxiety>>),
   Profile(<<>>, <<back>>, <<anxiety>>),
   Profile(<<relax>>, <<>>, <<anxiety>>),
   Profile(<<relax>>, <<back>>, <<>>),
   Profile(<<relax>>, <<back>>, <<anxiety, KNEE>>),
   Profile(<<relax>>, <<back, hash>>, <<anxiety>>),
   Profile(<<relax>>, <<hash>>, <<anxiety>>),
   Profile(<<relax>>, <<<<>>>>, <<anxiety>>)}

NoProfile == Profile(<<>>, <<>>, <<>>)
NoEmb == [goals |-> None, physical_issues |-> None, mental_issues |-> None]
NoResponse == [status |-> 0, detail |-> "", body |-> <<>>]

\* ------------------------------------------------------------------ engine
weights == [goals_benefits |-> 4, physical_benefits |-> 4, mental_benefits |-> 4,
            physical_match |-> 2, mental_match |-> 2]

total_weight == weights.goals_benefits + weights.physical_benefits
                + weights.mental_benefits + weights.physical_match
                + weights.mental_match

\* the similarity above which an item is discarded: 0.25
Threshold == 2500

\* recommendations[:10]
TopK == 10

\* mutant: the check of mental_issues is forgotten
MissingRequiredTwo(profile) ==
  \/ Len(profile.goals) = 0
  \/ Len(profile.physical_issues) = 0

\* not profile.get("goals") or not ... : a required list is empty
MissingRequired(profile) ==
  \/ Len(profile.goals) = 0
  \/ Len(profile.physical_issues) = 0
  \/ Len(profile.mental_issues) = 0

\* mutant: the phrase is compared as typed
FoldIssueRaw(issue) == issue

\* issue = issue.lower()
FoldIssue(issue) == Lower(issue)

\* mutant: >= in place of >
ExceedsOrEqual(sim) == sim >= Threshold

\* cos_sim(...).item() > 0.25
Exceeds(sim) == sim > Threshold

\* The loop over physical_issues + mental_issues for one row, from phrase k
\* on, with `calls` encode calls already issued for this row.  The result
\* is "discard", "pass", or "fault" when the body raised.
RECURSIVE ExclusionScan(_, _, _, _, _, _)
ExclusionScan(frame, row, contra_text, issues, k, calls) ==
  IF k > Len(issues) THEN [r |-> "pass", calls |-> calls]
  ELSE LET issue == FoldIssue(issues[k]) IN
    IF Contains(contra_text, issue) THEN [r |-> "discard", calls |-> calls]
    ELSE IF EncodeFails(issue) THEN [r |-> "fault", calls |-> calls + 1]
    ELSE IF KeyError(frame, "Contraindications_emb")
            \/ CosFails(row.Contraindications_emb)
      THEN [r |-> "fault", calls |-> calls + 1]
    ELSE IF Exceeds(CosSim(VecOf(issue), row.Contraindications_emb))
      THEN [r |-> "discard", calls |-> calls + 1]
    ELSE ExclusionScan(frame, row, contra_text, issues, k + 1, calls + 1)

\* one of the five cos_sim lines of the scoring block raises
ScoringFails(frame, row) ==
  \/ KeyError(frame, "Benefits_emb") \/ CosFails(row.Benefits_emb)
  \/ KeyError(frame, "Targeted Physical Problems_emb")
  \/ CosFails(row.TargetedPhysical_emb)
  \/ KeyError(frame, "Targeted Mental Problems_emb")
  \/ CosFails(row.TargetedMental_emb)

\* mutant: the physical_match term reads Benefits_emb
ScoreSumSwapped(row, emb) ==
  weights.goals_benefits * CosSim(emb.goals, row.Benefits_emb)
  + weights.physical_benefits * CosSim(emb.physical_issues, row.Benefits_emb)
  + weights.mental_benefits * CosSim(emb.mental_issues, row.Benefits_emb)
  + weights.physical_match * CosSim(emb.physical_issues, row.Benefits_emb)
  + weights.mental_match * CosSim(emb.mental_issues, row.TargetedMental_emb)

\* score after the five += lines: the numerator of score over
\* total_weight * CosUnit once score /= total_weight has run
ScoreSum(row, emb) ==
  weights.goals_benefits * CosSim(emb.goals, row.Benefits_emb)
  + weights.physical_benefits * CosSim(emb.physical_issues, row.Benefits_emb)
  + weights.mental_benefits * CosSim(emb.mental_issues, row.Benefits_emb)
  + weights.physical_match * CosSim(emb.physical_issues, row.TargetedPhysical_emb)
  + weights.mental_match * CosSim(emb.mental_issues, row.TargetedMental_emb)

\* round(num / den, 0) for den > 0, ties to even
RoundHalfEven(num, den) ==
  LET q == num \div den
      r == num % den
  IN IF 2 * r < den THEN q
     ELSE IF 2 * r > den THEN q + 1
     ELSE IF q % 2 = 0 THEN q ELSE q + 1

\* round(score, 3), in thousandths
Round3(sum) == RoundHalfEven(sum * 1000, total_weight * CosUnit)

\* if score > 0
Positive(sum) == sum > 0

NoRec == [name |-> 0, score |-> 0, benefits |-> NoText, contraindications |-> NoText]

\* the body of the for loop for one row, try/except included
EvalRow(frame, row, profile, emb) ==
  IF KeyError(frame, "Contraindications")
  THEN [outcome |-> "fault", calls |-> 0, rec |-> NoRec]
  ELSE
    LET contra_text == Lower(Str(row.Contraindications))
        scan == ExclusionScan(frame, row, contra_text,
                              profile.physical_issues \o profile.mental_issues, 1, 0)
    IN IF scan.r = "fault"
       THEN [outcome |-> "fault", calls |-> scan.calls, rec |-> NoRec]
       ELSE IF scan.r = "discard"
       THEN [outcome |-> "discard", calls |-> scan.calls, rec |-> NoRec]
       ELSE IF ScoringFails(frame, row)
       THEN [outcome |-> "fault", calls |-> scan.calls, rec |-> NoRec]
       ELSE IF ~Positive(ScoreSum(row, emb))
       THEN [outcome |-> "dropped", calls |-> scan.calls, rec |-> NoRec]
       ELSE IF KeyError(frame, "AName") \/ KeyError(frame, "Benefits")
       THEN [outcome |-> "fault", calls |-> scan.calls, rec |-> NoRec]
       ELSE [outcome |-> "kept", calls |-> scan.calls,
             rec |-> [name |-> row.AName, score |-> Round3(ScoreSum(row, emb)),
                      benefits |-> row.Benefits,
                      contraindications |-> row.Contraindications]]

\* mutant: equal scores come out in reverse catalog order
RECURSIVE InsertDescBefore(_, _)
InsertDescBefore(s, x) ==
  IF Len(s) = 0 THEN <<x>>
  ELSE IF s[1].score > x.score THEN <<s[1]>> \o InsertDescBefore(Tail(s), x)
  ELSE <<x>> \o s

\* sorted(..., key=score, reverse=True) is stable: x goes behind every
\* entry whose score is at least its own
RECURSIVE InsertDesc(_, _)
InsertDesc(s, x) ==
  IF Len(s) = 0 THEN <<x>>
  ELSE IF s[1].score >= x.score THEN <<s[1]>> \o InsertDesc(Tail(s), x)
  ELSE <<x>> \o s

RECURSIVE SortedDesc(_)
SortedDesc(s) ==
  IF Len(s) = 0 THEN <<>>
  ELSE InsertDesc(SortedDesc(SubSeq(s, 1, Len(s) - 1)), s[Len(s)])

\* mutant: the list is returned whole
TruncateNone(s) == s

\* recommendations[:10]
Truncate(s) == SubSeq(s, 1, IF Len(s) < TopK THEN Len(s) ELSE TopK)

\* ----------------------------------------------------------------- actions
Init ==
  /\ disk \in Disks
  /\ phase = "boot"
  /\ df = NoFrame
  /\ pc = "idle"
  /\ user_profile = NoProfile
  /\ user_emb = NoEmb
  /\ i = 0
  /\ recommendations = <<>>
  /\ trace = <<>>
  /\ embedCalls = 0
  /\ response = NoResponse
  /\ memo = <<>>

\* module initialisation succeeds: model and pickle both load
StartupOk ==
  /\ phase = "boot"
  /\ disk.model_ok /\ disk.pkl_ok
  /\ phase' = "serving"
  /\ df' = disk.pkl
  /\ UNCHANGED <<disk, pc, user_profile, user_emb, i, recommendations, trace,
                 embedCalls, response, memo>>

\* module initialisation raises: the process never serves
StartupFail ==
  /\ phase = "boot"
  /\ ~(disk.model_ok /\ disk.pkl_ok)
  /\ phase' = "failed"
  /\ UNCHANGED <<disk, df, pc, user_profile, user_emb, i, recommendations,
                 trace, embedCalls, response, memo>>

\* mutant: the recommendations list outlives the request
RequestKeepingList(p) ==
  /\ phase = "serving"
  /\ pc = "idle"
  /\ pc' = "validate"
  /\ user_profile' = p
  /\ user_emb' = NoEmb
  /\ i' = 0
  /\ trace' = <<>>
  /\ embedCalls' = 0
  /\ response' = NoResponse
  /\ memo' \in IF response.status # 0
                THEN {memo, <<[profile |-> user_profile, response |-> response]>>}
                ELSE {memo}
  /\ UNCHANGED <<disk, phase, df, recommendations>>

\* get_recommendations is entered with a profile; recommend_asanas starts.
\* memo is a history variable: it may keep the profile and the response of
\* the request that has just been answered, for comparison with later ones.
Request(p) ==
  /\ phase = "serving"
  /\ pc = "idle"
  /\ pc' = "validate"
  /\ user_profile' = p
  /\ user_emb' = NoEmb
  /\ i' = 0
  /\ recommendations' = <<>>
  /\ trace' = <<>>
  /\ embedCalls' = 0
  /\ response' = NoResponse
  /\ memo' \in IF response.status # 0
                THEN {memo, <<[profile |-> user_profile, response |-> response]>>}
                ELSE {memo}
  /\ UNCHANGED <<disk, phase, df>>

\* the validation raises ValueError, which the handler turns into a 400
ValidateFail ==
  /\ pc = "validate"
  /\ MissingRequired(user_profile)
  /\ pc' = "idle"
  /\ response' = [status |-> 400, detail |-> "InvalidProfile", body |-> <<>>]
  /\ UNCHANGED <<disk, phase, df, user_profile, user_emb, i, recommendations,
                 trace, embedCalls, memo>>

ValidateOk ==
  /\ pc = "validate"
  /\ ~MissingRequired(user_profile)
  /\ pc' = "encode"
  /\ UNCHANGED <<disk, phase, df, user_profile, user_emb, i, recommendations,
                 trace, embedCalls, response, memo>>

\* the three query embeddings, in the order goals, physical, mental; a
\* raising encode ends the request with a 500
EncodeQuery ==
  /\ pc = "encode"
  /\ LET g == Join(user_profile.goals)
         p == Join(user_profile.physical_issues)
         m == Join(user_profile.mental_issues)
     IN IF EncodeFails(g) \/ EncodeFails(p) \/ EncodeFails(m)
        THEN /\ embedCalls' = IF EncodeFails(g) THEN 1
                              ELSE IF EncodeFails(p) THEN 2 ELSE 3
             /\ pc' = "idle"
             /\ response' = [status |-> 500, detail |-> "Internal", body |-> <<>>]
                        /\ UNCHANGED <<user_emb, i>>
        ELSE /\ embedCalls' = 3
             /\ user_emb' = [goals |-> VecOf(g), physical_issues |-> VecOf(p),
                             mental_issues |-> VecOf(m)]
             /\ pc' = "loop"
             /\ i' = 1
             /\ UNCHANGED response
  /\ UNCHANGED <<disk, phase, df, user_profile, recommendations, trace, memo>>

\* mutant: no try/except around the loop body, a raising row ends the request
NextRowUnguarded ==
  /\ pc = "loop"
  /\ i <= Len(df.rows)
  /\ LET ev == EvalRow(df, df.rows[i], user_profile, user_emb) IN
       /\ recommendations' = IF ev.outcome = "kept"
                              THEN Append(recommendations, ev.rec)
                              ELSE recommendations
       /\ trace' = Append(trace, ev.outcome)
       /\ embedCalls' = embedCalls + ev.calls
       /\ IF ev.outcome = "fault"
          THEN /\ pc' = "idle"
               /\ response' = [status |-> 500, detail |-> "Internal", body |-> <<>>]
          ELSE UNCHANGED <<pc, response>>
  /\ i' = i + 1
  /\ UNCHANGED <<disk, phase, df, user_profile, user_emb, memo>>

\* one iteration of for _, row in df.iterrows()
NextRow ==
  /\ pc = "loop"
  /\ i <= Len(df.rows)
  /\ LET ev == EvalRow(df, df.rows[i], user_profile, user_emb) IN
       /\ recommendations' = IF ev.outcome = "kept"
                              THEN Append(recommendations, ev.rec)
                              ELSE recommendations
       /\ trace' = Append(trace, ev.outcome)
       /\ embedCalls' = embedCalls + ev.calls
  /\ i' = i + 1
  /\ UNCHANGED <<disk, phase, df, pc, user_profile, user_emb, response, memo>>

\* after the loop: sort, truncate, and the handler's 200 response
Finish ==
  /\ pc = "loop"
  /\ i > Len(df.rows)
  /\ recommendations' = SortedDesc(recommendations)
  /\ response' = [status |-> 200, detail |-> "success",
                  body |-> Truncate(recommendations')]
  /\ pc' = "idle"
  /\ UNCHANGED <<disk, phase, df, user_profile, user_emb, i, trace, embedCalls,
                 memo>>

Next ==
  \/ StartupOk
  \/ StartupFail
  \/ \E p \in Profiles : Request(p)
  \/ ValidateFail
  \/ ValidateOk
  \/ EncodeQuery
  \/ NextRow
  \/ Finish

Spec == Init /\ [][Next]_vars

\* GET /health
health_check ==
  [status |-> "healthy", model_loaded |-> phase = "serving",
   data_loaded |-> Len(df.rows) > 0, total_poses |-> Len(df.rows)]

TypeOK ==
  /\ phase \in {"boot", "failed", "serving"}
  /\ pc \in {"idle", "validate", "encode", "loop"}
  /\ i \in 0..(Len(df.rows) + 1)
  /\ Len(memo) <= 1

\* ------------------------------------------------------------------ claims
\* a request has been answered and no new one has started
Done == pc = "idle" /\ response.status # 0
Ok200 == Done /\ response.status = 200

Issues == user_profile.physical_issues \o user_profile.mental_issues

\* the case-folded contraindications text of row k contains case-folded p
LexHit(k, p) ==
  /\ "Contraindications" \in df.columns
  /\ Contains(Lower(Str(df.rows[k].Contraindications)), Lower(p))

InBody(name) == \E j \in 1..Len(response.body) : response.body[j].name = name

\* C1: every score returned in a Recommendation (the rounded value, in
\* thousandths) is strictly greater than 0 and at most 1.
C1_ScoreInUnitInterval ==
  Ok200 => \A j \in 1..Len(response.body) :
              response.body[j].score > 0 /\ response.body[j].score <= 1000

\* C2: a successful response has at most 10 entries and adjacent entries are
\* in non-increasing score order.
C2_AtMostTenSorted ==
  Ok200 => /\ Len(response.body) <= 10
           /\ \A j \in 1..(Len(response.body) - 1) :
                 response.body[j].score >= response.body[j + 1].score

\* more than 10 candidates were cut to 10, and the order is not constant
C2_Witness ==
  /\ Ok200
  /\ Len(recommendations) > 10
  /\ Len(response.body) = 10
  /\ response.body[1].score > response.body[10].score

\* C3: a row whose contraindications text contains, case-insensitively, any
\* phrase of physical_issues or mental_issues is absent from the output.
C3_LexicalExclusion ==
  Ok200 => \A k \in 1..Len(df.rows) :
              (\E n \in 1..Len(Issues) : LexHit(k, Issues[n]))
                => ~InBody(df.rows[k].AName)

\* a top-scoring row is kept out by the last mental phrase, which matches
\* only after case folding, while another row is returned
C3_Witness ==
  /\ Ok200
  /\ Len(response.body) > 0
  /\ \E k \in 1..Len(df.rows) :
       /\ LexHit(k, Issues[Len(Issues)])
       /\ \A n \in 1..(Len(Issues) - 1) : ~LexHit(k, Issues[n])
       /\ ~Contains(Str(df.rows[k].Contraindications), Issues[Len(Issues)])
       /\ df.rows[k].Benefits_emb = "bMax"
       /\ ~InBody(df.rows[k].AName)

\* C4: a profile with an empty goals, physical_issues or mental_issues is
\* answered with the InvalidProfile failure, with no embedding call issued
\* and no catalog row evaluated.
C4_ValidationFirst ==
  LET missing == \/ user_profile.goals = <<>>
                 \/ user_profile.physical_issues = <<>>
                 \/ user_profile.mental_issues = <<>>
  IN /\ (missing /\ pc # "validate" /\ (pc # "idle" \/ response.status # 0))
          => /\ pc = "idle"
             /\ response.status = 400
             /\ response.detail = "InvalidProfile"
             /\ embedCalls = 0
             /\ i = 0
             /\ trace = <<>>
     /\ (embedCalls > 0 \/ i > 0) => ~missing

C4_Witness ==
  /\ Done
  /\ user_profile.goals = <<>>
  /\ response.status = 400
  /\ embedCalls = 0

\* the rows of the frame whose evaluation did not raise
RECURSIVE WithoutFaulty(_, _)
WithoutFaulty(rows, tr) ==
  IF Len(rows) = 0 THEN <<>>
  ELSE IF tr[1] = "fault" THEN WithoutFaulty(Tail(rows), Tail(tr))
  ELSE <<rows[1]>> \o WithoutFaulty(Tail(rows), Tail(tr))

\* the candidates of a whole catalog, in catalog order
RECURSIVE Candidates(_, _, _, _)
Candidates(frame, rows, profile, emb) ==
  IF Len(rows) = 0 THEN <<>>
  ELSE LET ev == EvalRow(frame, rows[1], profile, emb)
           rest == Candidates(frame, Tail(rows), profile, emb)
       IN IF ev.outcome = "kept" THEN <<ev.rec>> \o rest ELSE rest

Ranked(frame, rows, profile, emb) ==
  Truncate(SortedDesc(Candidates(frame, rows, profile, emb)))

\* C5: a fault while evaluating one row never aborts the request: every row
\* is still evaluated and the response is the one the catalog without the
\* faulty rows gives.
C5_FaultsSkipped ==
  /\ (\E k \in 1..Len(trace) : trace[k] = "fault") => pc = "loop" \/ Ok200
  /\ (Done /\ \E k \in 1..Len(trace) : trace[k] = "fault")
       => /\ Len(trace) = Len(df.rows)
          /\ response.body = Ranked(df, WithoutFaulty(df.rows, trace),
                                    user_profile, user_emb)

\* a row raised, in the exclusion test or in scoring, and a later row is
\* returned
C5_Witness ==
  /\ Ok200
  /\ \E k, j \in 1..Len(trace) :
       /\ k < j
       /\ trace[k] = "fault"
       /\ trace[j] = "kept"
       /\ InBody(df.rows[j].AName)

\* C6: the engine serves only a catalog that is non-empty and has the four
\* embedding columns.
C6_StartupRejectsBadCatalog ==
  phase = "serving"
    => /\ health_check.data_loaded
       /\ {"Contraindications_emb", "Benefits_emb",
           "Targeted Physical Problems_emb", "Targeted Mental Problems_emb"}
            \subseteq df.columns

\* C7: a request with the profile of an earlier request gets the response
\* the earlier one got, and the catalog stays as loaded.
C7_Idempotent ==
  /\ (Done /\ memo # <<>>) =>
        (memo[1].profile = user_profile => response = memo[1].response)
  /\ phase = "serving" => df = disk.pkl

\* a later request repeats an earlier profile and returns a non-empty list
C7_Witness ==
  /\ Ok200
  /\ memo # <<>>
  /\ memo[1].profile = user_profile
  /\ Len(response.body) > 1

\* C8: a row evaluated without fault reaches scoring exactly when no phrase
\* of physical_issues followed by mental_issues is contained in its text
\* (case-folded) or has similarity above 0.25 to its contraindications
\* embedding; exactly 0.25 does not exclude.
C8_ReachesScoring ==
  \A k \in 1..Len(trace) :
    trace[k] # "fault" =>
      (trace[k] \in {"kept", "dropped"}
        <=> \A n \in 1..Len(Issues) :
              /\ ~LexHit(k, Issues[n])
              /\ CosSim(VecOf(Lower(Issues[n])),
                        df.rows[k].Contraindications_emb) <= 2500)

\* a row at exactly 0.25 was scored and a row just above was discarded
C8_Witness ==
  \E k, j \in 1..Len(trace) :
    /\ trace[k] = "kept"
    /\ CosSim(VecOf(Lower(Issues[1])), df.rows[k].Contraindications_emb) = 2500
    /\ trace[j] = "discard"
    /\ CosSim(VecOf(Lower(Issues[1])), df.rows[j].Contraindications_emb) = 2501

\* the weighted sum of the claim for row k, a numerator over 16 * CosUnit
C9_Sum(k) ==
  LET r == df.rows[k] IN
    4 * CosSim(user_emb.goals, r.Benefits_emb)
    + 4 * CosSim(user_emb.physical_issues, r.Benefits_emb)
    + 4 * CosSim(user_emb.mental_issues, r.Benefits_emb)
    + 2 * CosSim(user_emb.physical_issues, r.TargetedPhysical_emb)
    + 2 * CosSim(user_emb.mental_issues, r.TargetedMental_emb)

\* C9: a row that reaches scoring is retained exactly when the weighted sum
\* over 16 is positive, and its returned score is that value rounded to the
\* nearest thousandth; 16 is the sum of the five weights.
C9_ScoreFormula ==
  /\ total_weight = 16
  /\ \A k \in 1..Len(trace) :
       trace[k] \in {"kept", "dropped"} =>
         /\ trace[k] = "kept" <=> C9_Sum(k) > 0
         /\ trace[k] = "kept" =>
              \E j \in 1..Len(recommendations) :
                LET rec == recommendations[j]
                    err == rec.score * 16 * CosUnit - C9_Sum(k) * 1000
                IN /\ rec.name = df.rows[k].AName
                   /\ 2 * err <= 16 * CosUnit
                   /\ 2 * err >= -(16 * CosUnit)

\* the one-row scenario: cos(goals, benefits) = 0.8, the other cosines 0,
\* returned first with score 0.2
C9_Witness ==
  /\ Ok200
  /\ Len(df.rows) = 1
  /\ CosSim(user_emb.goals, df.rows[1].Benefits_emb) = 8000
  /\ CosSim(user_emb.physical_issues, df.rows[1].Benefits_emb) = 0
  /\ CosSim(user_emb.mental_issues, df.rows[1].Benefits_emb) = 0
  /\ CosSim(user_emb.physical_issues, df.rows[1].TargetedPhysical_emb) = 0
  /\ CosSim(user_emb.mental_issues, df.rows[1].TargetedMental_emb) = 0
  /\ Len(response.body) = 1
  /\ response.body[1].name = df.rows[1].AName
  /\ response.body[1].score = 200

\* C10: among returned entries of equal score the one earlier in the
\* catalog comes first, and a candidate cut by the truncation scores below
\* every returned entry or ties with it and is later in the catalog.
C10_TiesByCatalogOrder ==
  Ok200 =>
    /\ \A j, k \in 1..Len(response.body) :
         (j < k /\ response.body[j].score = response.body[k].score)
           => response.body[j].name < response.body[k].name
    /\ \A n \in 1..Len(recommendations) :
         ~InBody(recommendations[n].name) =>
           \A j \in 1..Len(response.body) :
             \/ response.body[j].score > recommendations[n].score
             \/ /\ response.body[j].score = recommendations[n].score
                /\ response.body[j].name < recommendations[n].name

\* the cut at 10 goes through a group of equal scores below a higher group
C10_Witness ==
  /\ Ok200
  /\ Len(recommendations) > 10
  /\ response.body[1].score > response.body[10].score
  /\ response.body[9].score = response.body[10].score
  /\ \E n \in 1..Len(recommendations) :
       /\ ~InBody(recommendations[n].name)
       /\ recommendations[n].score = response.body[10].score

====
